---- MODULE Spec2Model ----
(***************************************************************************)
(* A model of make_Makemodule.py: the generator of the Makemodule.am       *)
(* fragments, of the run_test_<group>.in wrappers, and of the managed      *)
(* regions of Makefile.am and configure.ac.                                *)
(*                                                                         *)
(* Strings the program takes apart (file names, paths, variable names)     *)
(* are sequences of one-character strings.  A piece of file text (a line   *)
(* read by readline, a string passed to f.write) is a record               *)
(*     [txt |-> literal, arg |-> path, ws |-> trailing whitespace]         *)
(* standing for the text  txt . arg . ws : txt . arg is what rstrip()      *)
(* returns, ws is what it strips.  The names of the model hold no          *)
(* whitespace, so the decomposition is unique.                             *)
(***************************************************************************)
EXTENDS Naturals, Sequences, FiniteSets, TLC

VARIABLES
    dirs,            \* the directories of the tree (paths relative to the cwd)
    files,           \* the regular files of the tree: path -> content
    listdesc,        \* the directory-listing order of this file system
    rl_pc,           \* replace_lines: position in the function
    filename,        \* replace_lines: argument
    lines_to_insert, \* replace_lines: argument
    line,            \* replace_lines: local
    rpos,            \* replace_lines: lines consumed from the file object
    lines_to_write,  \* replace_lines: local
    widx,            \* replace_lines: lines written back so far
    eofReads,        \* number of readline() calls that returned ''
    orig,            \* content of the host file when replace_lines was called
    loc,             \* find_files / includedir: argument
    include,         \* find_files: argument (the name of a pattern)
    exclude,         \* find_files: argument (the name of a pattern)
    res,             \* find_files: returned list
    ff_status,       \* find_files: "idle", "returned" or "raised"
    out,             \* includedir: the strings written to f
    named,           \* includedir: (dir, subpathname) in emission order
    pc,              \* main: position in the function
    makemodules,     \* main: local
    testnames,       \* main: local
    entries,         \* main: the os.listdir(unittest_dir) being iterated
    run,             \* number of the run of main in progress
    snap             \* the files as the first run of main left them

rlvars == <<rl_pc, filename, lines_to_insert, line, rpos, lines_to_write,
            widx, eofReads, orig>>
ffvars == <<loc, include, exclude, res, ff_status, out, named>>
mvars == <<pc, makemodules, testnames, entries, run, snap>>
fsvars == <<dirs, files, listdesc>>
vars == <<fsvars, rlvars, ffvars, mvars>>

-----------------------------------------------------------------------------
(* Bounds of the model *)

MaxHostLen == 5
MaxIns == 2
MaxEofReads == 3

-----------------------------------------------------------------------------
(* Strings *)

RECURSIVE JoinWith(_, _)
\* sep.join(parts)
JoinWith(parts, sep) ==
    IF parts = <<>> THEN <<>>
    ELSE IF Len(parts) = 1 THEN parts[1]
    ELSE parts[1] \o sep \o JoinWith(Tail(parts), sep)

RECURSIVE SplitAt(_, _, _)
\* s.split(sep) for a one-character sep; cur is the part being collected
SplitAt(s, sep, cur) ==
    IF s = <<>> THEN <<cur>>
    ELSE IF Head(s) = sep THEN <<cur>> \o SplitAt(Tail(s), sep, <<>>)
    ELSE SplitAt(Tail(s), sep, Append(cur, Head(s)))

Split(s, sep) == SplitAt(s, sep, <<>>)

StartsWith(s, p) == Len(s) >= Len(p) /\ SubSeq(s, 1, Len(p)) = p
EndsWith(s, p) == Len(s) >= Len(p) /\ SubSeq(s, Len(s) - Len(p) + 1, Len(s)) = p

Front(s) == SubSeq(s, 1, Len(s) - 1)
Last(s) == s[Len(s)]

\* os.sep
sep == "/"

\* os.path.join(a, b) for a relative b
PathJoin(a, b) ==
    IF a = <<>> THEN b
    ELSE IF Last(a) = sep THEN a \o b
    ELSE a \o <<sep>> \o b

\* os.path.split(p): <<head, tail>>
PathSplit(p) ==
    LET parts == Split(p, sep)
    IN  IF Len(parts) = 1 THEN <<(<<>>), p>>
        ELSE <<JoinWith(Front(parts), <<sep>>), Last(parts)>>

Basename(p) == PathSplit(p)[2]
Dirname(p) == PathSplit(p)[1]

-----------------------------------------------------------------------------
(* Regular expressions, as re.match applies them: a match that starts at   *)
(* position 0 and may end anywhere.  A pattern is a syntax tree.           *)

Lit(w) == <<"lit", w>>
AnyChar == <<"any">>
Cat(a, b) == <<"cat", a, b>>
Alt(a, b) == <<"alt", a, b>>
Star(a) == <<"star", a>>
Opt(a) == <<"opt", a>>

RECURSIVE CatAll(_)
CatAll(rs) == IF Len(rs) = 1 THEN rs[1] ELSE Cat(rs[1], CatAll(Tail(rs)))

RECURSIVE AltAll(_)
AltAll(rs) == IF Len(rs) = 1 THEN rs[1] ELSE Alt(rs[1], AltAll(Tail(rs)))

RECURSIVE MatchEnds(_, _, _)
RECURSIVE StarEnds(_, _, _, _)

\* the positions j at which a match of r that starts after position i can end
MatchEnds(r, s, i) ==
    CASE r[1] = "lit" ->
           IF i + Len(r[2]) <= Len(s) /\ SubSeq(s, i + 1, i + Len(r[2])) = r[2]
           THEN {i + Len(r[2])} ELSE {}
      [] r[1] = "any" -> IF i < Len(s) THEN {i + 1} ELSE {}
      [] r[1] = "cat" ->
           UNION {MatchEnds(r[3], s, j) : j \in MatchEnds(r[2], s, i)}
      [] r[1] = "alt" -> MatchEnds(r[2], s, i) \cup MatchEnds(r[3], s, i)
      [] r[1] = "opt" -> {i} \cup MatchEnds(r[2], s, i)
      [] r[1] = "star" -> StarEnds(r[2], s, {i}, {i})

StarEnds(r, s, frontier, seen) ==
    LET next == UNION {MatchEnds(r, s, j) : j \in frontier} \ seen
    IN  IF next = {} THEN seen ELSE StarEnds(r, s, next, seen \cup next)

\* bool(re.match(r, s))
ReMatch(r, s) == MatchEnds(r, s, 0) # {}

DotStar == Star(AnyChar)

-----------------------------------------------------------------------------
(* The patterns of the program *)

\* '.*'
default_include == DotStar

\* '.*\.(dirstamp|gitignore|am|hide|old|orig|lo|Plo|o)'
default_exclude ==
    CatAll(<<DotStar, Lit(<<".">>),
      AltAll(<<Lit(<<"d", "i", "r", "s", "t", "a", "m", "p">>),
              Lit(<<"g", "i", "t", "i", "g", "n", "o", "r", "e">>),
              Lit(<<"a", "m">>),
              Lit(<<"h", "i", "d", "e">>),
              Lit(<<"o", "l", "d">>),
              Lit(<<"o", "r", "i", "g">>),
              Lit(<<"l", "o">>),
              Lit(<<"P", "l", "o">>),
              Lit(<<"o">>)>>)>>)

\* '.*\.(c|cc|cpp|C)'
cxx_include ==
    CatAll(<<DotStar, Lit(<<".">>),
      AltAll(<<Lit(<<"c">>), Lit(<<"c", "c">>), Lit(<<"c", "p", "p">>), Lit(<<"C">>)>>)>>)

\* '(' + default_exclude + ')|(.*test_g(un)?zip.C)'
src_exclude ==
    Alt(default_exclude,
        CatAll(<<DotStar, Lit(<<"t", "e", "s", "t", "_", "g">>), Opt(Lit(<<"u", "n">>)),
                 Lit(<<"z", "i", "p">>), AnyChar, Lit(<<"C">>)>>))

\* 'Makemodule.am(\.test)*'
makemodule_re ==
    CatAll(<<Lit(<<"M", "a", "k", "e", "m", "o", "d", "u", "l", "e">>), AnyChar, Lit(<<"a", "m">>),
             Star(Lit(<<".", "t", "e", "s", "t">>))>>)


\* a pattern of the program by its name: the state holds the names
Pattern(name) ==
    CASE name = "default_include" -> default_include
      [] name = "default_exclude" -> default_exclude
      [] name = "cxx_include" -> cxx_include
      [] name = "src_exclude" -> src_exclude
      [] name = "makemodule_re" -> makemodule_re

-----------------------------------------------------------------------------
(* File text *)

\* the text txt . arg . ws
Piece(txt, arg, ws) == [txt |-> txt, arg |-> arg, ws |-> ws]

\* a line without a path in it
TextLine(txt, ws) == Piece(txt, <<>>, ws)

\* what readline() returns at the end of the file: ''
EOF == Piece("", <<>>, "")

\* len(line) == 0
IsEmpty(l) == l.txt = "" /\ l.arg = <<>> /\ l.ws = ""

\* line.rstrip()
RStrip(l) == <<l.txt, l.arg>>

BEGIN_MARKER == <<"# BEGIN MAKEMODULE", <<>>>>
END_MARKER == <<"# END MAKEMODULE", <<>>>>

\* line.rstrip() == '# BEGIN MAKEMODULE'
IsBegin(l) == RStrip(l) = BEGIN_MARKER

\* line.rstrip() == '# END MAKEMODULE'
IsEnd(l) == RStrip(l) = END_MARKER

\* f.readline() on a file object that has consumed n lines of content c
ReadLine(c, n) == IF n < Len(c) THEN c[n + 1] ELSE EOF

-----------------------------------------------------------------------------
(* The file system.  A tree is a set of directories D and a set of regular  *)
(* files F, both sets of paths relative to the working directory, which is  *)
(* the empty path.  A directory lists its entries in the order of           *)
(* NameOrder, or in the reverse order when desc holds: the order is fixed   *)
(* for a tree, as the order of os.listdir is for an unchanged directory.    *)

n_include == <<"i", "n", "c", "l", "u", "d", "e">>
n_casm == <<"c", "a", "s", "m">>
n_ccasm == <<"c", "c", "a", "s", "m">>
n_src == <<"s", "r", "c">>
n_apps == <<"a", "p", "p", "s">>
n_completer == <<"c", "o", "m", "p", "l", "e", "t", "e", "r">>
n_tests == <<"t", "e", "s", "t", "s">>
n_unit == <<"u", "n", "i", "t">>
n_a_b == <<"a", "_", "b">>
n_a == <<"a">>
n_b == <<"b">>
n_app == <<"a", "p", "p">>
n_App == <<"A", "p", "p">>
n_clex == <<"c", "l", "e", "x">>
n_misc == <<"m", "i", "s", "c">>
n_A_hh == <<"A", ".", "h", "h">>
n_x_hh == <<"x", ".", "h", "h">>
n_y_hh == <<"y", ".", "h", "h">>
n_Foo_hh == <<"F", "o", "o", ".", "h", "h">>
n_foo_o == <<"f", "o", "o", ".", "o">>
n_bar_Plo == <<"b", "a", "r", ".", "P", "l", "o">>
n_gitignore == <<".", "g", "i", "t", "i", "g", "n", "o", "r", "e">>
n_x_old_cpp == <<"x", ".", "o", "l", "d", ".", "c", "p", "p">>
n_m_cpp == <<"m", ".", "c", "p", "p">>
n_c_cc == <<"c", ".", "c", "c">>
n_test_gunzip_C == <<"t", "e", "s", "t", "_", "g", "u", "n", "z", "i", "p", ".", "C">>
n_Makemodule_am == <<"M", "a", "k", "e", "m", "o", "d", "u", "l", "e", ".", "a", "m">>
n_Makemodule_am_test == <<"M", "a", "k", "e", "m", "o", "d", "u", "l", "e", ".", "a", "m", ".", "t", "e", "s", "t">>
n_x_test_cpp == <<"x", "_", "t", "e", "s", "t", ".", "c", "p", "p">>
n_y_test_cpp == <<"y", "_", "t", "e", "s", "t", ".", "c", "p", "p">>
n_data_json == <<"d", "a", "t", "a", ".", "j", "s", "o", "n">>
n_notes_txt == <<"n", "o", "t", "e", "s", ".", "t", "x", "t">>
n_helper_cpp == <<"h", "e", "l", "p", "e", "r", ".", "c", "p", "p">>
n_run_test_App_in == <<"r", "u", "n", "_", "t", "e", "s", "t", "_", "A", "p", "p", ".", "i", "n">>
n_Makefile_am == <<"M", "a", "k", "e", "f", "i", "l", "e", ".", "a", "m">>
n_configure_ac == <<"c", "o", "n", "f", "i", "g", "u", "r", "e", ".", "a", "c">>
n_run_test_clex_in == <<"r", "u", "n", "_", "t", "e", "s", "t", "_", "c", "l", "e", "x", ".", "i", "n">>

\* every name an entry of the trees can have, in listing order
NameOrder ==
    <<n_gitignore, n_A_hh, n_App, n_Foo_hh, n_Makefile_am, n_Makemodule_am,
      n_Makemodule_am_test, n_a, n_a_b, n_app, n_apps, n_b, n_bar_Plo,
      n_c_cc, n_casm, n_ccasm, n_clex, n_completer, n_configure_ac,
      n_data_json, n_foo_o, n_helper_cpp, n_include, n_m_cpp, n_misc,
      n_notes_txt, n_run_test_App_in, n_run_test_clex_in, n_src,
      n_test_gunzip_C, n_tests, n_unit, n_x_hh, n_x_old_cpp, n_x_test_cpp,
      n_y_hh, n_y_test_cpp>>

Reverse(s) == [i \in 1..Len(s) |-> s[Len(s) + 1 - i]]

\* a path from its segments
P(segs) == JoinWith(segs, <<sep>>)

\* the entries of directory d, in listing order
Listing(D, F, desc, d) ==
    LET order == IF desc THEN Reverse(NameOrder) ELSE NameOrder
    IN  SelectSeq(order, LAMBDA n : PathJoin(d, n) \in D \cup F)

\* os.path.isdir(p)
IsDir(D, p) == p \in D

RECURSIVE FlatMap(_, _)
\* the concatenation of Op(s[1]), Op(s[2]), ...
FlatMap(Op(_), s) ==
    IF s = <<>> THEN <<>> ELSE Op(Head(s)) \o FlatMap(Op, Tail(s))

RECURSIVE Walk(_, _, _, _)
\* list(os.walk(top)): the triples <<root, dirs, files>>, top-down; a top
\* that cannot be listed yields nothing (onerror is None)
Walk(D, F, desc, top) ==
    IF ~IsDir(D, top) THEN <<>>
    ELSE LET names == Listing(D, F, desc, top)
             subdirs == SelectSeq(names, LAMBDA n : PathJoin(top, n) \in D)
             nondirs == SelectSeq(names, LAMBDA n : PathJoin(top, n) \notin D)
             Below(n) == Walk(D, F, desc, PathJoin(top, n))
         IN  <<(<<top, subdirs, nondirs>>)>> \o FlatMap(Below, subdirs)

\* fnmatch of a name against the pattern '*' + suffix
FnStar(suffix, n) == EndsWith(n, suffix)

\* glob(join(dir, '*' + suffix)): the entries of dir that match, hidden
\* names left out; nothing when dir cannot be listed
Glob(D, F, desc, dir, suffix) ==
    IF ~IsDir(D, dir) THEN <<>>
    ELSE LET names == SelectSeq(Listing(D, F, desc, dir),
                        LAMBDA n : Head(n) # "." /\ FnStar(suffix, n))
         IN  [i \in 1..Len(names) |-> PathJoin(dir, names[i])]

-----------------------------------------------------------------------------
(* find_files *)

AcceptsIgnoringExclude(inc, exc, f) == ReMatch(inc, f)

\* line 78: bool(re.match(include, f)) and not bool(re.match(exclude, f))
Accepts(inc, exc, f) == ReMatch(inc, f) /\ ~ReMatch(exc, f)

\* lines 75-83: the accepted files of every directory os.walk visits
find_files(D, F, desc, top, inc, exc) ==
    LET OfTriple(t) ==
            LET kept == SelectSeq(t[3], LAMBDA f : Accepts(inc, exc, f))
            IN  [i \in 1..Len(kept) |-> PathJoin(t[1], kept[i])]
    IN  FlatMap(OfTriple, Walk(D, F, desc, top))

-----------------------------------------------------------------------------
(* FragmentWriter: write_files, write_option, append_option, append.  Each *)
(* returns the strings it passes to f.write, in order.                     *)

s_HEADERS == <<"H", "E", "A", "D", "E", "R", "S">>
s_include == <<"i", "n", "c", "l", "u", "d", "e">>
u_score == <<"_">>

\* lines 88-95
write_files(objlist) ==
    LET Of(i) == <<Piece("  %s", <<objlist[i]>>, ""),
                   IF i = Len(objlist) THEN Piece("", <<>>, "\n\n")
                   ELSE Piece("\\", <<>>, "\n")>>
        RECURSIVE From(_)
        From(i) == IF i > Len(objlist) THEN <<>> ELSE Of(i) \o From(i + 1)
    IN  From(1)

\* lines 113-117: <name>_<option> = ...
write_option(name, option, objlist) ==
    IF Len(objlist) = 0 THEN <<>>
    ELSE <<Piece("%s_%s = \\", <<name, option>>, "\n")>> \o write_files(objlist)

\* lines 101-105: <name>_<option> += ...
append_option(name, option, objlist) ==
    IF Len(objlist) = 0 THEN <<>>
    ELSE <<Piece("%s_%s += \\", <<name, option>>, "\n")>> \o write_files(objlist)

\* lines 107-111: <var> += ...
append(var, objlist) ==
    IF Len(objlist) = 0 THEN <<>>
    ELSE <<Piece("%s += \\", <<var>>, "\n")>> \o write_files(objlist)

-----------------------------------------------------------------------------
(* includedir *)

RECURSIVE GroupByDir(_, _)
\* lines 134-139: data, as the sequence of its items <<dir, filelist>> in the
\* order the keys were inserted
GroupByDir(found, data) ==
    IF found = <<>> THEN data
    ELSE LET file == Head(found)
             dir == PathSplit(file)[1]
             at == {i \in 1..Len(data) : data[i][1] = dir}
         IN  IF at = {}
             THEN GroupByDir(Tail(found), Append(data, <<dir, <<file>>>>))
             ELSE GroupByDir(Tail(found),
                    [data EXCEPT ![CHOOSE i \in at : TRUE] =
                       <<dir, Append(@[2], file)>>])

\* line 143: dir.split(os.sep)[1:]
SubpathParts(dir) == Tail(Split(dir, sep))

\* line 145: os.path.join(*subpath_parts)
Subpath(dir) == P(SubpathParts(dir))

\* line 147: '_'.join(subpath_parts + ['include'])
Subpathname(dir) == JoinWith(Append(SubpathParts(dir), s_include), u_score)

\* lines 140-149: what includedir writes for the items of data
IncludeDirWrites(data) ==
    LET Of(item) ==
            <<Piece("%sdir=$(includedir)/%s",
                    <<Subpathname(item[1]), Subpath(item[1])>>, "\n\n")>>
            \o write_option(Subpathname(item[1]), s_HEADERS, item[2])
    IN  FlatMap(Of, data)

\* lines 140-147: the directories of data with the names derived for them
IncludeDirNames(data) ==
    [i \in 1..Len(data) |-> <<data[i][1], Subpathname(data[i][1])>>]

-----------------------------------------------------------------------------
(* The strings and lists of the program *)

s_libcasm_la_file == <<"l", "i", "b", "c", "a", "s", "m", ".", "l", "a">>
s_libccasm_la_file == <<"l", "i", "b", "c", "c", "a", "s", "m", ".", "l", "a">>
s_lib_LTLIBRARIES == <<"l", "i", "b", "_", "L", "T", "L", "I", "B", "R", "A", "R", "I", "E", "S">>
s_libcasm_la == <<"l", "i", "b", "c", "a", "s", "m", "_", "l", "a">>
s_libccasm_la == <<"l", "i", "b", "c", "c", "a", "s", "m", "_", "l", "a">>
s_SOURCES == <<"S", "O", "U", "R", "C", "E", "S">>
s_LIBADD == <<"L", "I", "B", "A", "D", "D">>
s_LDFLAGS == <<"L", "D", "F", "L", "A", "G", "S">>
s_LDADD == <<"L", "D", "A", "D", "D">>
s_CXXFLAGS == <<"C", "X", "X", "F", "L", "A", "G", "S">>
s_PROGRAMS == <<"P", "R", "O", "G", "R", "A", "M", "S">>
s_DATA == <<"D", "A", "T", "A">>
s_avoid_version == <<"-", "a", "v", "o", "i", "d", "-", "v", "e", "r", "s", "i", "o", "n">>
s_BOOST_LDFLAGS == <<"$", "(", "B", "O", "O", "S", "T", "_", "L", "D", "F", "L", "A", "G", "S", ")">>
s_bin_PROGRAMS == <<"b", "i", "n", "_", "P", "R", "O", "G", "R", "A", "M", "S">>
s_ccasm == <<"c", "c", "a", "s", "m">>
s_man1_MANS == <<"m", "a", "n", "1", "_", "M", "A", "N", "S">>
s_man_ccasm_1 == <<"m", "a", "n", "/", "c", "c", "a", "s", "m", ".", "1">>
s_ccasm_cpp == <<"a", "p", "p", "s", "/", "c", "c", "a", "s", "m", "/", "c", "c", "a", "s", "m", ".", "c", "p", "p">>
s_dist_bashcompletion == <<"d", "i", "s", "t", "_", "b", "a", "s", "h", "c", "o", "m", "p", "l", "e", "t", "i", "o", "n">>
s_completer_casm == <<"a", "p", "p", "s", "/", "c", "o", "m", "p", "l", "e", "t", "e", "r", "/", "c", "a", "s", "m">>
s_bin == <<"b", "i", "n">>
s_casm_complete_prog == <<"c", "a", "s", "m", "-", "c", "o", "m", "p", "l", "e", "t", "e">>
s_casm_complete == <<"c", "a", "s", "m", "_", "c", "o", "m", "p", "l", "e", "t", "e">>
s_complete_cpp == <<"a", "p", "p", "s", "/", "c", "o", "m", "p", "l", "e", "t", "e", "r", "/", "c", "o", "m", "p", "l", "e", "t", "e", ".", "c", "p", "p">>
s_check == <<"c", "h", "e", "c", "k">>
s_noinst_LIBRARIES == <<"n", "o", "i", "n", "s", "t", "_", "L", "I", "B", "R", "A", "R", "I", "E", "S">>
s_libcasmtesting_a == <<"l", "i", "b", "c", "a", "s", "m", "t", "e", "s", "t", "i", "n", "g", "_", "a">>
s_casm_unit_ == <<"c", "a", "s", "m", "_", "u", "n", "i", "t", "_">>
s_AM_CXXFLAGS == <<"$", "(", "A", "M", "_", "C", "X", "X", "F", "L", "A", "G", "S", ")">>
s_I_tests_unit == <<"-", "I", "$", "(", "t", "o", "p", "_", "s", "r", "c", "d", "i", "r", ")", "/", "t", "e", "s", "t", "s", "/", "u", "n", "i", "t", "/">>
s_unit_test_cpp == <<"t", "e", "s", "t", "s", "/", "u", "n", "i", "t", "/", "u", "n", "i", "t", "_", "t", "e", "s", "t", ".", "c", "p", "p">>
s_EXTRA_DIST == <<"E", "X", "T", "R", "A", "_", "D", "I", "S", "T">>
s_TESTS == <<"T", "E", "S", "T", "S">>
s_run_test_ == <<"r", "u", "n", "_", "t", "e", "s", "t", "_">>
s_dot_in == <<".", "i", "n">>
sfx_test_cpp == <<"_", "t", "e", "s", "t", ".", "c", "p", "p">>
sfx_cpp == <<".", "c", "p", "p">>
sfx_cc == <<".", "c", "c">>
sfx_hh == <<".", "h", "h">>
sfx_json == <<".", "j", "s", "o", "n">>
sfx_txt == <<".", "t", "x", "t">>

\* line 45: join('tests', 'unit')
unittest_dir == P(<<n_tests, n_unit>>)

\* lines 241, 248, 255, 270, 280, 291: the roots main works on
d_include_casm == P(<<n_include, n_casm>>)
d_include_ccasm == P(<<n_include, n_ccasm>>)
d_src_casm == P(<<n_src, n_casm>>)
d_src_ccasm == P(<<n_src, n_ccasm>>)
d_apps_ccasm == P(<<n_apps, n_ccasm>>)
d_apps_completer == P(<<n_apps, n_completer>>)

\* line 52
lib_casm == <<<<"l", "i", "b", "c", "a", "s", "m", ".", "l", "a">>>>

\* lines 54-58
boost_libs ==
    <<<<"$", "(", "B", "O", "O", "S", "T", "_", "S", "Y", "S", "T", "E", "M", "_", "L", "I", "B", ")">>,
      <<"$", "(", "B", "O", "O", "S", "T", "_", "F", "I", "L", "E", "S", "Y", "S", "T", "E", "M", "_", "L", "I", "B", ")">>,
      <<"$", "(", "B", "O", "O", "S", "T", "_", "P", "R", "O", "G", "R", "A", "M", "_", "O", "P", "T", "I", "O", "N", "S", "_", "L", "I", "B", ")">>,
      <<"$", "(", "B", "O", "O", "S", "T", "_", "R", "E", "G", "E", "X", "_", "L", "I", "B", ")">>,
      <<"$", "(", "B", "O", "O", "S", "T", "_", "C", "H", "R", "O", "N", "O", "_", "L", "I", "B", ")">>>>

\* line 60
boost_test_libs == <<<<"$", "(", "B", "O", "O", "S", "T", "_", "U", "N", "I", "T", "_", "T", "E", "S", "T", "_", "F", "R", "A", "M", "E", "W", "O", "R", "K", "_", "L", "I", "B", ")">>>>

\* line 62
lib_casm_testing == <<<<"l", "i", "b", "c", "a", "s", "m", "t", "e", "s", "t", "i", "n", "g", ".", "a">>>>

\* line 151: the suffixes of '*.hh', '*.cc', '*.json', '*.txt'
extradist_ext == <<sfx_hh, sfx_cc, sfx_json, sfx_txt>>

-----------------------------------------------------------------------------
(* replace_lines(filename, lines_to_insert) *)

\* line = f.readline()
DoRead ==
    /\ line' = ReadLine(files[filename], rpos)
    /\ rpos' = IF rpos < Len(files[filename]) THEN rpos + 1 ELSE rpos
    /\ eofReads' = IF rpos < Len(files[filename]) THEN eofReads ELSE eofReads + 1

RLStartEager ==
    /\ rl_pc = "start"
    /\ filename \in DOMAIN files
    /\ lines_to_write' = <<>>
    /\ files' = [files EXCEPT ![filename] = <<>>]
    /\ line' = EOF
    /\ eofReads' = eofReads + 1
    /\ rl_pc' = "outer"
    /\ UNCHANGED <<ffvars, mvars, dirs, listdesc, filename, lines_to_insert, rpos, widx, orig>>

\* lines 218-220: the list is created, the file opened, the first line read
RLStart ==
    /\ rl_pc = "start"
    /\ filename \in DOMAIN files
    /\ lines_to_write' = <<>>
    /\ DoRead
    /\ rl_pc' = "outer"
    /\ UNCHANGED <<ffvars, mvars, fsvars, filename, lines_to_insert, widx, orig>>

\* line 219: open(filename, 'r') of a file that does not exist
RLNoFile ==
    /\ rl_pc = "start"
    /\ filename \notin DOMAIN files
    /\ rl_pc' = "raised"
    /\ UNCHANGED <<ffvars, mvars, fsvars, filename, lines_to_insert, line, rpos,
                   lines_to_write, widx, eofReads, orig>>

\* lines 221-222, 227-228: a line that is not the begin marker is copied
RLCopy ==
    /\ rl_pc = "outer"
    /\ ~IsEmpty(line)
    /\ ~IsBegin(line)
    /\ lines_to_write' = Append(lines_to_write, line)
    /\ DoRead
    /\ UNCHANGED <<ffvars, mvars, fsvars, rl_pc, filename, lines_to_insert, widx, orig>>

RLBeginNoCopy ==
    /\ rl_pc = "outer"
    /\ ~IsEmpty(line)
    /\ IsBegin(line)
    /\ lines_to_write' = lines_to_write \o lines_to_insert
    /\ rl_pc' = "skip"
    /\ UNCHANGED <<ffvars, mvars, fsvars, filename, lines_to_insert, line, rpos, widx,
                   eofReads, orig>>

\* lines 221-224: the begin marker is copied and the new lines follow it
RLBegin ==
    /\ rl_pc = "outer"
    /\ ~IsEmpty(line)
    /\ IsBegin(line)
    /\ lines_to_write' = Append(lines_to_write, line) \o lines_to_insert
    /\ rl_pc' = "skip"
    /\ UNCHANGED <<ffvars, mvars, fsvars, filename, lines_to_insert, line, rpos, widx,
                   eofReads, orig>>

RLSkipKeep ==
    /\ rl_pc = "skip"
    /\ ~IsEnd(line)
    /\ eofReads < MaxEofReads
    /\ lines_to_write' = Append(lines_to_write, line)
    /\ DoRead
    /\ UNCHANGED <<ffvars, mvars, fsvars, rl_pc, filename, lines_to_insert, widx, orig>>

\* lines 225-226: a line that is not the end marker is dropped, the next read
RLSkip ==
    /\ rl_pc = "skip"
    /\ ~IsEnd(line)
    /\ eofReads < MaxEofReads
    /\ DoRead
    /\ UNCHANGED <<ffvars, mvars, fsvars, rl_pc, filename, lines_to_insert, lines_to_write,
                   widx, orig>>

\* lines 225, 227-228: the end marker ends the skipping and is copied
RLEnd ==
    /\ rl_pc = "skip"
    /\ IsEnd(line)
    /\ lines_to_write' = Append(lines_to_write, line)
    /\ DoRead
    /\ rl_pc' = "outer"
    /\ UNCHANGED <<ffvars, mvars, fsvars, filename, lines_to_insert, widx, orig>>

\* lines 221, 229: readline() returned '', the file is opened for writing
RLOpenWrite ==
    /\ rl_pc = "outer"
    /\ IsEmpty(line)
    /\ files' = [files EXCEPT ![filename] = <<>>]
    /\ widx' = 0
    /\ rl_pc' = "writing"
    /\ UNCHANGED <<ffvars, mvars, dirs, listdesc, filename, lines_to_insert, line, rpos,
                   lines_to_write, eofReads, orig>>

\* lines 230-231: f.write(line)
RLWriteLine ==
    /\ rl_pc = "writing"
    /\ widx < Len(lines_to_write)
    /\ files' = [files EXCEPT
                   ![filename] = Append(@, lines_to_write[widx + 1])]
    /\ widx' = widx + 1
    /\ UNCHANGED <<ffvars, mvars, dirs, listdesc, rl_pc, filename, lines_to_insert, line,
                   rpos, lines_to_write, eofReads, orig>>

\* line 231: the loop is over, the file closed, the function returns
RLReturn ==
    /\ rl_pc = "writing"
    /\ widx = Len(lines_to_write)
    /\ rl_pc' = "done"
    /\ UNCHANGED <<ffvars, mvars, fsvars, filename, lines_to_insert, line, rpos,
                   lines_to_write, widx, eofReads, orig>>

-----------------------------------------------------------------------------
(* Calls of find_files and of includedir on the tree *)

\* find_files(loc, include, exclude), lines 73-83: it returns its list, and
\* has no path on which it raises
FindFilesCall ==
    /\ pc = "scan"
    /\ res' = find_files(dirs, DOMAIN files, listdesc, loc, Pattern(include),
                         Pattern(exclude))
    /\ ff_status' = "returned"
    /\ pc' = "found"
    /\ UNCHANGED <<fsvars, rlvars, loc, include, exclude, out, named,
                   makemodules, testnames, entries, run, snap>>

\* includedir(f, loc, include, exclude), lines 131-149
IncludeDirCall ==
    /\ pc = "scan"
    /\ LET found == find_files(dirs, DOMAIN files, listdesc, loc,
                               Pattern(include), Pattern(exclude))
           data == GroupByDir(found, <<>>)
       IN  /\ res' = found
           /\ out' = IncludeDirWrites(data)
           /\ named' = IncludeDirNames(data)
    /\ ff_status' = "returned"
    /\ pc' = "included"
    /\ UNCHANGED <<fsvars, rlvars, loc, include, exclude,
                   makemodules, testnames, entries, run, snap>>

-----------------------------------------------------------------------------
(* Test groups: has_tests, testdir, run_test_in *)

has_tests_always(D, F, desc, dir) == TRUE

\* lines 119-121: len(glob(join(dir, '*_test.cpp'))) > 0
has_tests(D, F, desc, dir) == Len(Glob(D, F, desc, dir, sfx_test_cpp)) > 0

\* line 194: join('tests', 'unit', group, 'run_test_' + group)
RunTestPath(group) == P(<<n_tests, n_unit, group, s_run_test_ \o group>>)

\* lines 198-199: join(loc, 'run_test_' + group + '.in')
RunTestInPath(group) ==
    PathJoin(PathJoin(unittest_dir, group), s_run_test_ \o group \o s_dot_in)

\* lines 160-194: what testdir writes to f for a group
testdir(D, F, desc, group) ==
    LET grouploc == PathJoin(unittest_dir, group)
        name == s_casm_unit_ \o group
        sources == Glob(D, F, desc, grouploc, sfx_test_cpp)
        OfExt(ext) == Glob(D, F, desc, grouploc, ext)
        extradist_files == FlatMap(OfExt, extradist_ext)
    IN  append_option(s_check, s_PROGRAMS, <<name>>)
        \o write_option(name, s_CXXFLAGS, <<s_AM_CXXFLAGS, s_I_tests_unit>>)
        \o write_option(name, s_SOURCES, <<s_unit_test_cpp>> \o sources)
        \o write_option(name, s_LDADD,
             lib_casm \o boost_libs \o boost_test_libs \o lib_casm_testing)
        \o (IF Len(extradist_files) > 0
            THEN append(s_EXTRA_DIST, extradist_files) ELSE <<>>)
        \o append(s_TESTS, <<RunTestPath(group)>>)

\* lines 200-206: the content of 'run_test_<group>.in'
run_test_in(group) ==
    <<TextLine("#!/bin/bash", "\n"),
      Piece("GROUP=%s", <<group>>, "\n"),
      TextLine("export PATH=@abs_top_builddir@:$PATH", "\n"),
      TextLine("cd @abs_top_srcdir@", "\n"),
      TextLine("mkdir -p @abs_top_srcdir@/tests/unit/test_projects", "\n"),
      TextLine(": ${TEST_FLAGS:=\"--log_level=test_suite --catch_system_errors=no\"}", "\n"),
      TextLine("@abs_top_builddir@/casm_unit_$GROUP ${TEST_FLAGS}", "\n")>>

-----------------------------------------------------------------------------
(* main *)

\* the files with path p holding content c, created or truncated
WithFile(F, p, c) == [q \in DOMAIN F \cup {p} |-> IF q = p THEN c ELSE F[q]]

\* open(p, 'w') succeeds when the directory of p exists
CanCreate(p) == IsDir(dirs, Dirname(p))

\* lines 68-71: the files rm_existing removes
Removed(D, F, desc) ==
    LET OfTriple(t) ==
            LET hit == SelectSeq(t[3], LAMBDA f : ReMatch(makemodule_re, f))
            IN  [i \in 1..Len(hit) |-> PathJoin(t[1], hit[i])]
        all == FlatMap(OfTriple, Walk(D, F, desc, <<>>))
    IN  {all[i] : i \in 1..Len(all)}

\* lines 236-238: rm_existing(), makemodules = []
MRmExisting ==
    /\ pc = "rm_existing"
    /\ files' = [p \in DOMAIN files \ Removed(dirs, DOMAIN files, listdesc)
                   |-> files[p]]
    /\ makemodules' = <<>>
    /\ pc' = "include"
    /\ loc' = d_include_casm
    /\ UNCHANGED <<dirs, listdesc, rlvars, include, exclude, res, ff_status,
                   out, named, testnames, entries, run, snap>>

\* lines 241-252: the fragment of an include root (loc is include/casm,
\* then include/ccasm): its path is recorded, the file is created, and
\* includedir scans the root, the new file in it
MInclude ==
    /\ pc = "include"
    /\ LET path == PathJoin(loc, n_Makemodule_am)
       IN  /\ makemodules' = Append(makemodules, path)
           /\ IF CanCreate(path)
              THEN LET F1 == DOMAIN files \cup {path}
                       found == find_files(dirs, F1, listdesc, loc,
                                           default_include, default_exclude)
                       data == GroupByDir(found, <<>>)
                   IN  /\ files' = WithFile(files, path,
                                            IncludeDirWrites(data))
                       /\ res' = found
                       /\ named' = IncludeDirNames(data)
                       /\ IF loc = d_include_casm
                          THEN pc' = "include" /\ loc' = d_include_ccasm
                          ELSE pc' = "src_casm" /\ loc' = d_src_casm
              ELSE /\ pc' = "failed"
                   /\ UNCHANGED <<files, res, named, loc>>
    /\ UNCHANGED <<dirs, listdesc, rlvars, include, exclude, ff_status, out,
                   testnames, entries, run, snap>>

\* lines 255-267: src/casm/Makemodule.am
MSrcCasm ==
    /\ pc = "src_casm"
    /\ LET path == PathJoin(d_src_casm, n_Makemodule_am)
       IN  /\ makemodules' = Append(makemodules, path)
           /\ IF CanCreate(path)
              THEN LET F1 == DOMAIN files \cup {path}
                       found == find_files(dirs, F1, listdesc, d_src_casm,
                                           cxx_include, src_exclude)
                   IN  /\ files' = WithFile(files, path,
                            append(s_lib_LTLIBRARIES, <<s_libcasm_la_file>>)
                            \o write_option(s_libcasm_la, s_SOURCES, found)
                            \o write_option(s_libcasm_la, s_LIBADD, boost_libs)
                            \o write_option(s_libcasm_la, s_LDFLAGS,
                                 <<s_avoid_version, s_BOOST_LDFLAGS>>)
                            \o <<TextLine(
                                 "src/casm/version/autoversion.o: .FORCE",
                                 "\n\n")>>)
                       /\ res' = found
                       /\ pc' = "src_ccasm"
              ELSE pc' = "failed" /\ UNCHANGED <<files, res>>
    /\ loc' = d_src_ccasm
    /\ UNCHANGED <<dirs, listdesc, rlvars, include, exclude, ff_status, out,
                   named, testnames, entries, run, snap>>

\* lines 270-277: src/ccasm/Makemodule.am
MSrcCcasm ==
    /\ pc = "src_ccasm"
    /\ LET path == PathJoin(d_src_ccasm, n_Makemodule_am)
       IN  /\ makemodules' = Append(makemodules, path)
           /\ IF CanCreate(path)
              THEN LET F1 == DOMAIN files \cup {path}
                       found == find_files(dirs, F1, listdesc, d_src_ccasm,
                                           cxx_include, default_exclude)
                   IN  /\ files' = WithFile(files, path,
                            append(s_lib_LTLIBRARIES, <<s_libccasm_la_file>>)
                            \o write_option(s_libccasm_la, s_SOURCES, found)
                            \o write_option(s_libccasm_la, s_LDFLAGS,
                                 <<s_avoid_version>>))
                       /\ res' = found
                       /\ pc' = "apps"
              ELSE pc' = "failed" /\ UNCHANGED <<files, res>>
    /\ UNCHANGED <<dirs, listdesc, rlvars, loc, include, exclude, ff_status,
                   out, named, testnames, entries, run, snap>>

\* lines 284-287: what main writes to apps/ccasm/Makemodule.am
AppsCcasmFragment ==
    append(s_bin_PROGRAMS, <<s_ccasm>>)
    \o append(s_man1_MANS, <<s_man_ccasm_1>>)
    \o write_option(s_ccasm, s_SOURCES, <<s_ccasm_cpp>>)
    \o write_option(s_ccasm, s_LDADD, lib_casm \o boost_libs)

\* lines 295-301: what main writes to apps/completer/Makemodule.am
AppsCompleterFragment ==
    <<TextLine("if ENABLE_BASH_COMPLETION", "\n\n"),
      TextLine("bashcompletiondir=$(BASH_COMPLETION_DIR)", "\n\n")>>
    \o write_option(s_dist_bashcompletion, s_DATA, <<s_completer_casm>>)
    \o append_option(s_bin, s_PROGRAMS, <<s_casm_complete_prog>>)
    \o write_option(s_casm_complete, s_SOURCES, <<s_complete_cpp>>)
    \o write_option(s_casm_complete, s_LDADD, lib_casm \o boost_libs)
    \o <<TextLine("endif", "\n")>>

\* lines 280-301: apps/ccasm/Makemodule.am, then apps/completer/Makemodule.am
MApps ==
    /\ pc = "apps"
    /\ LET path1 == PathJoin(d_apps_ccasm, n_Makemodule_am)
           path2 == PathJoin(d_apps_completer, n_Makemodule_am)
       IN  IF ~CanCreate(path1)
           THEN /\ makemodules' = Append(makemodules, path1)
                /\ pc' = "failed"
                /\ UNCHANGED files
           ELSE /\ makemodules' = makemodules \o <<path1, path2>>
                /\ IF ~CanCreate(path2)
                   THEN /\ files' = WithFile(files, path1, AppsCcasmFragment)
                        /\ pc' = "failed"
                   ELSE /\ files' = WithFile(
                                      WithFile(files, path1, AppsCcasmFragment),
                                      path2, AppsCompleterFragment)
                        /\ pc' = "tests_open"
    /\ UNCHANGED <<dirs, listdesc, rlvars, ffvars, testnames, entries, run,
                   snap>>

\* lines 304-326: tests/unit/Makemodule.am is created, the part that does
\* not depend on the groups is written, and tests/unit is listed
MTestsOpen ==
    /\ pc = "tests_open"
    /\ LET path == PathJoin(unittest_dir, n_Makemodule_am)
       IN  /\ makemodules' = Append(makemodules, path)
           /\ testnames' = <<>>
           /\ IF CanCreate(path)
              THEN LET F1 == DOMAIN files \cup {path}
                       OfExt(ext) == Glob(dirs, F1, listdesc, unittest_dir, ext)
                       libcasmtesting_files ==
                           FlatMap(OfExt, <<sfx_cpp, sfx_cc, sfx_hh>>)
                   IN  /\ files' = WithFile(files, path,
                            append_option(s_check, s_PROGRAMS, <<s_ccasm>>)
                            \o append(s_noinst_LIBRARIES, lib_casm_testing)
                            \o write_option(s_libcasmtesting_a, s_SOURCES,
                                            libcasmtesting_files))
                       /\ entries' = Listing(dirs, F1, listdesc, unittest_dir)
                       /\ pc' = "tests_loop"
              ELSE pc' = "failed" /\ UNCHANGED <<files, entries>>
    /\ UNCHANGED <<dirs, listdesc, rlvars, ffvars, run, snap>>

\* lines 326-335: one entry of tests/unit: a directory that has tests is a
\* group, gets its stanza in the fragment and its run_test_<group>.in
MTestEntry ==
    /\ pc = "tests_loop"
    /\ entries # <<>>
    /\ LET file_or_dir == Head(entries)
           test_dir == PathJoin(unittest_dir, file_or_dir)
           frag == PathJoin(unittest_dir, n_Makemodule_am)
       IN  IF /\ IsDir(dirs, test_dir)
              /\ has_tests(dirs, DOMAIN files, listdesc, test_dir)
           THEN /\ testnames' = Append(testnames, file_or_dir)
                /\ files' = WithFile(
                     [files EXCEPT ![frag] =
                        @ \o testdir(dirs, DOMAIN files, listdesc, file_or_dir)],
                     RunTestInPath(file_or_dir), run_test_in(file_or_dir))
           ELSE UNCHANGED <<files, testnames>>
    /\ entries' = Tail(entries)
    /\ UNCHANGED <<dirs, listdesc, rlvars, ffvars, pc, makemodules, run, snap>>

\* the call replace_lines(name, new_lines)
CallReplaceLines(name, new_lines) ==
    /\ filename' = name
    /\ lines_to_insert' = new_lines
    /\ rl_pc' = "start"
    /\ line' = EOF
    /\ rpos' = 0
    /\ lines_to_write' = <<>>
    /\ widx' = 0
    /\ eofReads' = 0
    /\ orig' = IF name \in DOMAIN files THEN files[name] ELSE <<>>

\* line 338: 'include $(srcdir)/' + val + '\n' for val in makemodules
IncludeLines(mm) ==
    [i \in 1..Len(mm) |-> Piece("include $(srcdir)/%s", <<mm[i]>>, "\n")]

\* lines 341-344: one AC_CONFIG_FILES line per name in testnames
RegistrationLines(names) ==
    [i \in 1..Len(names) |->
        Piece("AC_CONFIG_FILES([%s], [chmod +x %s])",
              <<RunTestPath(names[i]), RunTestPath(names[i])>>, "\n")]

\* lines 326, 338: the loop over tests/unit is over, the fragment is
\* closed, replace_lines is called on Makefile.am
MSpliceMakefile ==
    /\ pc = "tests_loop"
    /\ entries = <<>>
    /\ CallReplaceLines(n_Makefile_am, IncludeLines(makemodules))
    /\ pc' = "splice_makefile"
    /\ UNCHANGED <<fsvars, ffvars, makemodules, testnames, entries, run, snap>>

\* lines 341-345: replace_lines has returned, and is called on configure.ac
MSpliceConfigure ==
    /\ pc = "splice_makefile"
    /\ rl_pc = "done"
    /\ CallReplaceLines(n_configure_ac, RegistrationLines(testnames))
    /\ pc' = "splice_configure"
    /\ UNCHANGED <<fsvars, ffvars, makemodules, testnames, entries, run, snap>>

\* line 345: replace_lines has returned, and main returns
MReturn ==
    /\ pc = "splice_configure"
    /\ rl_pc = "done"
    /\ pc' = "done"
    /\ UNCHANGED <<fsvars, rlvars, ffvars, makemodules, testnames, entries,
                   run, snap>>

\* lines 338, 345: replace_lines raised, and so does main
MSpliceRaised ==
    /\ pc \in {"splice_makefile", "splice_configure"}
    /\ rl_pc = "raised"
    /\ pc' = "failed"
    /\ UNCHANGED <<fsvars, rlvars, ffvars, makemodules, testnames, entries,
                   run, snap>>

\* line 349: the script is run again on the tree as the first run left it
MRunAgain ==
    /\ pc = "done"
    /\ run = 1
    /\ run' = 2
    /\ snap' = files
    /\ pc' = "rm_existing"
    /\ UNCHANGED <<fsvars, rlvars, ffvars, makemodules, testnames, entries>>

-----------------------------------------------------------------------------
(* The host files and the new lines replace_lines is checked on *)

\* the two markers (the end marker with blanks after it), an ordinary line,
\* and a line that is no marker because blanks precede the text
LBegin == TextLine("# BEGIN MAKEMODULE", "\n")
LEnd == TextLine("# END MAKEMODULE", "  \n")
LStale == TextLine("include $(srcdir)/old/Makemodule.am", "\n")
LIndented == TextLine("  # BEGIN MAKEMODULE", "\n")

HostLines == {LBegin, LEnd, LStale, LIndented}

LNewA == TextLine("include $(srcdir)/a.frag", "\n")
LNewB == TextLine("include $(srcdir)/b.frag", "\n")

InsertLines == {LNewA, LNewB}

SeqsUpTo(S, n) == UNION {[1..k -> S] : k \in 0..n}

Hosts == SeqsUpTo(HostLines, MaxHostLen)
Inserts == SeqsUpTo(InsertLines, MaxIns)

NoFiles == [p \in {} |-> <<>>]

RLIdle ==
    /\ rl_pc = "idle"
    /\ filename = <<>>
    /\ lines_to_insert = <<>>
    /\ line = EOF
    /\ rpos = 0
    /\ lines_to_write = <<>>
    /\ widx = 0
    /\ eofReads = 0
    /\ orig = <<>>

FFIdle ==
    /\ loc = <<>>
    /\ include = ""
    /\ exclude = ""
    /\ res = <<>>
    /\ ff_status = "idle"
    /\ out = <<>>
    /\ named = <<>>

MIdle ==
    /\ pc = "idle"
    /\ makemodules = <<>>
    /\ testnames = <<>>
    /\ entries = <<>>
    /\ run = 0
    /\ snap = NoFiles

\* replace_lines is called on Makefile.am, which holds any of the host
\* contents or does not exist, with any of the lists of new lines
Init ==
    /\ dirs = {<<>>}
    /\ listdesc = FALSE
    /\ \/ \E h \in Hosts : files = (n_Makefile_am :> h) /\ orig = h
       \/ files = NoFiles /\ orig = <<>>
    /\ filename = n_Makefile_am
    /\ lines_to_insert \in Inserts
    /\ rl_pc = "start"
    /\ line = EOF
    /\ rpos = 0
    /\ lines_to_write = <<>>
    /\ widx = 0
    /\ eofReads = 0
    /\ FFIdle
    /\ MIdle

Next ==
    \/ RLStart
    \/ RLNoFile
    \/ RLCopy
    \/ RLBegin
    \/ RLSkip
    \/ RLEnd
    \/ RLOpenWrite
    \/ RLWriteLine
    \/ RLReturn

Spec == Init /\ [][Next]_vars

-----------------------------------------------------------------------------
(* The trees find_files and includedir are checked on *)

MaxTreeFiles == 3

\* the directories above path p, the working directory included
Ancestors(p) ==
    LET parts == Split(p, sep)
    IN  {P(SubSeq(parts, 1, k)) : k \in 0..(Len(parts) - 1)}

ScanFiles ==
    {P(<<n_include, n_casm, n_A_hh>>),
     P(<<n_include, n_casm, n_foo_o>>),
     P(<<n_include, n_casm, n_bar_Plo>>),
     P(<<n_include, n_casm, n_gitignore>>),
     P(<<n_include, n_casm, n_Makemodule_am>>),
     P(<<n_include, n_casm, n_a_b, n_x_hh>>),
     P(<<n_include, n_casm, n_a, n_b, n_y_hh>>),
     P(<<n_include, n_casm, n_app, n_Foo_hh>>),
     P(<<n_include, n_casm, n_app, n_x_old_cpp>>),
     P(<<n_include, n_casm, n_app, n_test_gunzip_C>>),
     P(<<n_include, n_casm, n_app, n_m_cpp>>)}

\* the (include, exclude) pairs main passes: lines 131, 262, 276
PatternPairs ==
    {<<"default_include", "default_exclude">>,
     <<"cxx_include", "src_exclude">>,
     <<"cxx_include", "default_exclude">>}

\* a tree of up to MaxTreeFiles files below include/casm, in which
\* include/ccasm does not exist; find_files or includedir is about to be
\* called on one of the two roots
ScanInit ==
    /\ \E T \in SUBSET ScanFiles :
          /\ Cardinality(T) <= MaxTreeFiles
          /\ files = [p \in T |-> <<>>]
          /\ dirs = {d_include_casm} \cup UNION {Ancestors(p) : p \in T}
                      \cup Ancestors(d_include_casm)
    /\ listdesc \in BOOLEAN
    /\ loc \in {d_include_casm, d_include_ccasm}
    /\ \E pp \in PatternPairs : include = pp[1] /\ exclude = pp[2]
    /\ res = <<>>
    /\ ff_status = "idle"
    /\ out = <<>>
    /\ named = <<>>
    /\ pc = "scan"
    /\ makemodules = <<>>
    /\ testnames = <<>>
    /\ entries = <<>>
    /\ run = 0
    /\ snap = NoFiles
    /\ RLIdle

ScanNext ==
    \/ FindFilesCall
    \/ IncludeDirCall

ScanSpec == ScanInit /\ [][ScanNext]_vars

-----------------------------------------------------------------------------
(* The trees and host files main is checked on *)

MaxMainFiles == 3

\* the directories of the repository layout main expects
Skeleton ==
    {d_include_casm, d_include_ccasm, d_src_casm, d_src_ccasm, d_apps_ccasm,
     d_apps_completer, unittest_dir}

\* the files a tree may hold besides the host files: headers, sources, a
\* stale fragment, a support file of the tests, two groups with a test
\* source, a directory of tests/unit without one
MainFiles ==
    {P(<<n_include, n_casm, n_A_hh>>),
     P(<<n_include, n_casm, n_app, n_Foo_hh>>),
     P(<<n_include, n_casm, n_Makemodule_am_test>>),
     P(<<n_src, n_casm, n_m_cpp>>),
     P(<<n_src, n_casm, n_test_gunzip_C>>),
     P(<<n_src, n_ccasm, n_c_cc>>),
     P(<<n_tests, n_unit, n_helper_cpp>>),
     P(<<n_tests, n_unit, n_App, n_x_test_cpp>>),
     P(<<n_tests, n_unit, n_App, n_data_json>>),
     P(<<n_tests, n_unit, n_clex, n_y_test_cpp>>),
     P(<<n_tests, n_unit, n_misc, n_notes_txt>>)}

LStaleReg ==
    TextLine("AC_CONFIG_FILES([tests/unit/old/run_test_old], [chmod +x tests/unit/old/run_test_old])",
             "\n")

\* Makefile.am: with a managed region that holds a stale line and a last
\* line without a newline; without markers; with a begin marker only
MakefileHosts ==
    {<<TextLine("ACLOCAL_AMFLAGS = -I m4", "\n"), LBegin, LStale, LEnd,
       TextLine("EXTRA_DIST += README.md", "")>>,
     <<TextLine("ACLOCAL_AMFLAGS = -I m4", "\n")>>,
     <<LBegin, LStale>>}

\* configure.ac: with a managed region that holds a stale line; with an
\* empty managed region
ConfigureHosts ==
    {<<TextLine("AC_INIT([casm])", "\n"), LBegin, LStaleReg, LEnd,
       TextLine("AC_OUTPUT", "\n")>>,
     <<LBegin, LEnd>>}

\* a tree with the layout main expects (include/ccasm may be missing, and
\* so may Makefile.am), up to MaxMainFiles files in it, and the two host
\* files; main is about to run for the first time
MainInit ==
    /\ \E T \in SUBSET MainFiles, mk \in MakefileHosts,
          cf \in ConfigureHosts, nomk \in BOOLEAN, noccasm \in BOOLEAN :
          /\ Cardinality(T) <= MaxMainFiles
          /\ (nomk \/ noccasm) => T = {}
          /\ dirs = (Skeleton \ (IF noccasm THEN {d_include_ccasm} ELSE {}))
                      \cup UNION {Ancestors(p) : p \in T \cup Skeleton}
          /\ files = [p \in T \cup {n_configure_ac}
                           \cup (IF nomk THEN {}
                                 ELSE {n_Makefile_am}) |->
                        IF p = n_Makefile_am THEN mk
                        ELSE IF p = n_configure_ac THEN cf
                        ELSE <<>>]
    /\ listdesc \in BOOLEAN
    /\ pc = "rm_existing"
    /\ run = 1
    /\ makemodules = <<>>
    /\ testnames = <<>>
    /\ entries = <<>>
    /\ snap = NoFiles
    /\ FFIdle
    /\ RLIdle

MainNext ==
    \/ MRmExisting
    \/ MInclude
    \/ MSrcCasm
    \/ MSrcCcasm
    \/ MApps
    \/ MTestsOpen
    \/ MTestEntry
    \/ MSpliceMakefile
    \/ MSpliceConfigure
    \/ MReturn
    \/ MSpliceRaised
    \/ MRunAgain
    \/ RLStart
    \/ RLNoFile
    \/ RLCopy
    \/ RLBegin
    \/ RLSkip
    \/ RLEnd
    \/ RLOpenWrite
    \/ RLWriteLine
    \/ RLReturn

MainSpec == MainInit /\ [][MainNext]_vars

-----------------------------------------------------------------------------
(* Properties of replace_lines, under Spec *)

BeginsOf(c) == {i \in 1..Len(c) : IsBegin(c[i])}
EndsOf(c) == {i \in 1..Len(c) : IsEnd(c[i])}
TheOne(S) == CHOOSE i \in S : TRUE

\* exactly one begin marker line, followed later by exactly one end marker line
OnePair(c) ==
    /\ Cardinality(BeginsOf(c)) = 1
    /\ Cardinality(EndsOf(c)) = 1
    /\ TheOne(BeginsOf(c)) < TheOne(EndsOf(c))

Host == files[filename]
Returned == rl_pc = "done" /\ filename \in DOMAIN files

\* C1: when the host file holds exactly one begin marker followed later by
\* exactly one end marker, replace_lines leaves the lines up to and including
\* the begin marker, and the lines from the end marker to the end of the
\* file, as they were and in the same order.
C1_RegionPreservation ==
    (Returned /\ OnePair(orig)) =>
        LET b == TheOne(BeginsOf(orig))
            e == TheOne(EndsOf(orig))
            tail == Len(orig) - e + 1
        IN  /\ Len(Host) >= b + tail
            /\ SubSeq(Host, 1, b) = SubSeq(orig, 1, b)
            /\ SubSeq(Host, Len(Host) - tail + 1, Len(Host))
                 = SubSeq(orig, e, Len(orig))

\* a splice into a file that has text before the begin marker, stale text in
\* the region and text after the end marker has returned
C1_Witness ==
    /\ Returned
    /\ OnePair(orig)
    /\ TheOne(BeginsOf(orig)) > 1
    /\ TheOne(EndsOf(orig)) > TheOne(BeginsOf(orig)) + 1
    /\ TheOne(EndsOf(orig)) < Len(orig)
    /\ lines_to_insert # <<>>
    /\ Host # orig

\* C2: when the host file holds exactly one marker pair in order, after
\* replace_lines the lines strictly between the begin marker and the end
\* marker are exactly lines_to_insert, in the given order, and no line of the
\* previous region is left.
C2_RegionIsNewLines ==
    (Returned /\ OnePair(orig)) =>
        LET b == TheOne(BeginsOf(orig))
            e == TheOne(EndsOf(orig))
            n == Len(lines_to_insert)
        IN  /\ Len(Host) = b + n + (Len(orig) - e + 1)
            /\ IsBegin(Host[b])
            /\ SubSeq(Host, b + 1, b + n) = lines_to_insert
            /\ IsEnd(Host[b + n + 1])
            /\ BeginsOf(Host) = {b}
            /\ EndsOf(Host) = {b + n + 1}

\* a region that held one stale entry has been spliced with two new lines
C2_Witness ==
    /\ Returned
    /\ OnePair(orig)
    /\ TheOne(EndsOf(orig)) = TheOne(BeginsOf(orig)) + 2
    /\ orig[TheOne(BeginsOf(orig)) + 1] = LStale
    /\ lines_to_insert = <<LNewA, LNewB>>

\* C5: when the host file does not hold exactly one begin marker followed by
\* exactly one end marker, replace_lines does not rewrite the file and does
\* not return normally.
C5_MalformedIsFatal ==
    (filename \in DOMAIN files /\ ~OnePair(orig)) =>
        /\ rl_pc \notin {"writing", "done"}
        /\ Host = orig

Reading == rl_pc \in {"start", "outer", "skip"}

\* C9: replace_lines writes nothing to the host file before it has read it
\* to its end: while it reads, the file holds its original content, and once
\* it writes, the last readline() has returned '' after every line was read.
C9_WriteAfterRead ==
    filename \in DOMAIN files =>
        /\ Reading => (Host = orig /\ widx = 0)
        /\ rl_pc \in {"writing", "done"} =>
              (IsEmpty(line) /\ rpos = Len(orig) /\ eofReads = 1)

\* the read pass is under way on a file that is not empty, part of it read
C9_Witness ==
    /\ rl_pc = "skip"
    /\ rpos > 1
    /\ rpos < Len(orig)
    /\ Host = orig

\* C10: the skip-forward loop stops once the end of the file is reached: a
\* step taken in the loop after readline() has returned '' leaves the loop.
C10_SkipStopsAtEof ==
    [][(rl_pc = "skip" /\ IsEmpty(line)) => rl_pc' # "skip"]_vars

-----------------------------------------------------------------------------
(* Properties of find_files and includedir, under ScanSpec *)

ResultSet == {res[i] : i \in 1..Len(res)}

\* C4: two distinct directories that each hold an accepted file get
\* distinct install-variable names from includedir.
C4_NamesDistinct ==
    \A i, j \in 1..Len(named) :
        named[i][1] # named[j][1] => named[i][2] # named[j][2]

\* C6: when the root passed to find_files does not exist, find_files fails
\* with an error and does not return normally.
C6_MissingRootRaises ==
    (ff_status # "idle" /\ ~IsDir(dirs, loc)) => ff_status = "raised"

BuildArtifacts == {n_foo_o, n_bar_Plo, n_gitignore}

\* C7: find_files returns no file whose basename matches the exclude
\* pattern in force: every file returned matches the include pattern and
\* does not match the exclude pattern, and every file of the tree below the
\* root that does so is returned; under either exclude pattern of the
\* program foo.o, bar.Plo and .gitignore are never returned.
C7_ExcludeWins ==
    ff_status = "returned" =>
        /\ \A p \in ResultSet :
              /\ p \in DOMAIN files
              /\ ReMatch(Pattern(include), Basename(p))
              /\ ~ReMatch(Pattern(exclude), Basename(p))
              /\ Basename(p) \notin BuildArtifacts
        /\ \A p \in DOMAIN files :
              (/\ StartsWith(p, loc \o <<sep>>)
               /\ IsDir(dirs, loc)
               /\ ReMatch(Pattern(include), Basename(p))
               /\ ~ReMatch(Pattern(exclude), Basename(p))) => p \in ResultSet

\* find_files has returned from a tree that holds a file matching both the
\* include and the exclude pattern, and a file it accepts
C7_Witness ==
    /\ ff_status = "returned"
    /\ res # <<>>
    /\ \E p \in DOMAIN files :
          /\ ReMatch(Pattern(include), Basename(p))
          /\ ReMatch(Pattern(exclude), Basename(p))
          /\ Basename(p) \in BuildArtifacts

-----------------------------------------------------------------------------
(* Properties of main, under MainSpec *)

d_tests_fragment == PathJoin(unittest_dir, n_Makemodule_am)

\* the files main creates: the fragments and the wrappers of the groups
Generated ==
    {makemodules[i] : i \in 1..Len(makemodules)}
      \cup {RunTestInPath(testnames[i]) : i \in 1..Len(testnames)}

\* the values of the lists written to fragment p (line 90)
ListedIn(p) ==
    {files[p][i].arg[1] :
        i \in {k \in 1..Len(files[p]) : files[p][k].txt = "  %s"}}

\* C3: a second run of main on the tree the first run left, with the same
\* listing order, leaves every file (fragments, wrappers, host files) as the
\* first run left it, and no fragment lists a file that main creates.
C3_Idempotent ==
    (pc = "done" /\ run = 2) =>
        /\ files = snap
        /\ \A i \in 1..Len(makemodules) :
              ListedIn(makemodules[i]) \cap Generated = {}

\* The second run has returned on a tree with a header, a test group and a
\* Makefile.am that has its managed region
C3_Witness ==
    /\ pc = "done"
    /\ run = 2
    /\ testnames # <<>>
    /\ RunTestInPath(testnames[1]) \in DOMAIN snap
    /\ n_Makefile_am \in DOMAIN files
    /\ OnePair(files[n_Makefile_am])
    /\ files[PathJoin(d_include_casm, n_Makemodule_am)] # <<>>

\* the immediate subdirectories of tests/unit that hold a regular file
\* matching '*_test.cpp', in listing order
TestGroups ==
    SelectSeq(Listing(dirs, DOMAIN files, listdesc, unittest_dir),
      LAMBDA e :
        /\ PathJoin(unittest_dir, e) \in dirs
        /\ \E p \in DOMAIN files :
              /\ Dirname(p) = PathJoin(unittest_dir, e)
              /\ EndsWith(Basename(p), sfx_test_cpp)
              /\ Head(Basename(p)) # ".")

\* the lines strictly between the markers of a file with one marker pair
Region(c) == SubSeq(c, TheOne(BeginsOf(c)) + 1, TheOne(EndsOf(c)) - 1)

\* the programs the tests fragment appends to check_PROGRAMS
CheckPrograms ==
    LET frag == files[d_tests_fragment]
    IN  {frag[i + 1].arg[1] :
           i \in {k \in 1..(Len(frag) - 1) :
                    /\ frag[k].txt = "%s_%s += \\"
                    /\ frag[k].arg = <<s_check, s_PROGRAMS>>}}

\* C8: after main has returned, the managed region of configure.ac holds
\* exactly one registration line for each immediate subdirectory of
\* tests/unit that holds a '*_test.cpp' file, in listing order, and none for
\* any other entry; exactly those groups have a stanza in the tests fragment
\* and a run_test_<group>.in wrapper.
C8_RegistrationsAreGroups ==
    pc = "done" =>
        LET groups == TestGroups
            groupset == {groups[i] : i \in 1..Len(groups)}
        IN  /\ OnePair(orig) =>
                  /\ OnePair(files[n_configure_ac])
                  /\ Region(files[n_configure_ac]) = RegistrationLines(groups)
            /\ testnames = groups
            /\ CheckPrograms =
                  {s_ccasm} \cup {s_casm_unit_ \o g : g \in groupset}
            /\ \A i \in 1..Len(NameOrder) :
                  LET e == NameOrder[i]
                  IN  /\ RunTestInPath(e) \in DOMAIN files <=> e \in groupset
                      /\ e \in groupset =>
                            files[RunTestInPath(e)] = run_test_in(e)

\* main has returned on a tree whose tests/unit holds two groups, a
\* directory without a test source and a plain file
C8_Witness ==
    /\ pc = "done"
    /\ Len(TestGroups) = 2
    /\ PathJoin(unittest_dir, n_misc) \in dirs
    /\ d_tests_fragment \in DOMAIN files
    /\ OnePair(orig)
    /\ Len(Region(orig)) = 1

====
